---- MODULE Spec2Model ----
(***************************************************************************)
(* Model of src/main.py: the KML/KMZ coordinate parser, the container      *)
(* reader with its temporary file, the polygon metrics step and the        *)
(* "Transformar" batch loop.                                               *)
(*                                                                         *)
(* Abstractions.  A filename is a record [stem, ext] where ext is what     *)
(* os.path.splitext returns.  The bytes of a markup document are a record  *)
(* [utf8, wf, elems]: whether they decode as UTF-8, whether the text is    *)
(* well-formed XML, and the descendant elements of the root in document    *)
(* order.  An element records whether its tag is the namespaced            *)
(* coordinates tag, its depth, whether its text is None, and its text as   *)
(* the list of whitespace-separated tokens; a token is the list of its     *)
(* comma-separated fields; a field is numeric text or not.  Numbers are    *)
(* integers and centroids exact rationals (floating-point rounding is not  *)
(* modelled).                                                              *)
(***************************************************************************)
EXTENDS Integers, Sequences, FiniteSets, TLC

\* ------------------------------------------------------------------ bounds
MaxFiles == 3
MaxElems == 2
MaxExtras == 2
MaxClose == 2

\* ------------------------------------------------------------ result values
Ok(v) == [ok |-> TRUE, err |-> "", val |-> v]
Raise(e) == [ok |-> FALSE, err |-> e, val |-> <<>>]

\* ------------------------------------------------------- text micro-format
Num(v) == [num |-> TRUE, v |-> v]
Txt == [num |-> FALSE, v |-> 0]

\* float(s): a numeric field gives its value, anything else raises ValueError
float(s) == IF s.num THEN Ok(s.v) ELSE Raise("ValueError")

\* lines 26-28: parts = line.split(","); lon, lat = float(parts[0]), float(parts[1])
parse_token_swapped(parts) ==
    IF ~float(parts[1]).ok THEN Raise("ValueError")
    ELSE IF Len(parts) < 2 THEN Raise("IndexError")
    ELSE IF ~float(parts[2]).ok THEN Raise("ValueError")
    ELSE Ok(<< <<float(parts[2]).val, float(parts[1]).val>> >>)

parse_token(parts) ==
    IF ~float(parts[1]).ok THEN Raise("ValueError")
    ELSE IF Len(parts) < 2 THEN Raise("IndexError")
    ELSE IF ~float(parts[2]).ok THEN Raise("ValueError")
    ELSE Ok(<< <<float(parts[1]).val, float(parts[2]).val>> >>)

\* lines 25-28: for line in text.split(): ... coords.append((lon, lat))
RECURSIVE parse_lines(_, _)
parse_lines(lines, acc) ==
    IF lines = <<>> THEN Ok(acc)
    ELSE LET t == parse_token(Head(lines))
         IN IF ~t.ok THEN t ELSE parse_lines(Tail(lines), acc \o t.val)

\* line 24: text = elem.text.strip(); elem.text is None for an element
\* without text, and None has no strip
elem_text(elem) ==
    IF elem.text_none THEN Raise("AttributeError") ELSE Ok(elem.tokens)

\* line 23: root.findall(".//kml:coordinates", ns): the descendants with the
\* namespaced tag, at any depth, in document order
findall(elems) == SelectSeq(elems, LAMBDA e : e.kml_ns)

\* lines 23-28: the loop over the matched elements
RECURSIVE parse_elems(_, _)
parse_elems(elems, acc) ==
    IF elems = <<>> THEN Ok(acc)
    ELSE LET text == elem_text(Head(elems))
         IN IF ~text.ok THEN text
            ELSE LET r == parse_lines(text.val, acc)
                 IN IF ~r.ok THEN r ELSE parse_elems(Tail(elems), r.val)

\* lines 12-29
parse_kml(kml_content) ==
    IF ~kml_content.wf THEN Raise("ParseError")
    ELSE parse_elems(findall(kml_content.elems), <<>>)

\* bytes -> str as UTF-8 (f.read() of a text-mode file, bytes.decode)
decode(bytes) == IF bytes.utf8 THEN Ok(bytes) ELSE Raise("UnicodeDecodeError")

\* str.endswith on a filename whose extension is ext
endswith(filename, suffix) == filename.ext = suffix

\* str.lower on the extensions the model uses
lower(ext) ==
    CASE ext = ".KML" -> ".kml"
      [] ext = ".Kmz" -> ".kmz"
      [] OTHER -> ext

\* lines 32-36; the content of a file is [kind, doc, entries]
read_kml_file(content) ==
    IF content.kind # "xml" THEN Raise("UnicodeDecodeError")
    ELSE LET text == decode(content.doc)
         IN IF ~text.ok THEN text ELSE parse_kml(text.val)

\* lines 43-47: the loop over z.namelist()
RECURSIVE read_entries_unfiltered(_, _)
read_entries_unfiltered(entries, acc) ==
    IF entries = <<>> THEN Ok(acc)
    ELSE LET e == Head(entries)
             text == decode(e.doc)
         IN IF ~text.ok THEN text
            ELSE LET r == parse_kml(text.val)
                 IN IF ~r.ok THEN r
                    ELSE read_entries_unfiltered(Tail(entries), acc \o r.val)

RECURSIVE read_entries(_, _)
read_entries(entries, acc) ==
    IF entries = <<>> THEN Ok(acc)
    ELSE LET e == Head(entries)
         IN IF ~endswith(e.name, ".kml") THEN read_entries(Tail(entries), acc)
            ELSE LET text == decode(e.doc)
                 IN IF ~text.ok THEN text
                    ELSE LET r == parse_kml(text.val)
                         IN IF ~r.ok THEN r
                            ELSE read_entries(Tail(entries), acc \o r.val)

\* lines 39-48
read_kmz_file(content) ==
    IF content.kind # "zip" THEN Raise("BadZipFile")
    ELSE read_entries(content.entries, <<>>)

\* lines 62-68: the dispatch on the lower-cased extension inside the try
read_by_ext(ext, content) ==
    IF ext = ".kml" THEN read_kml_file(content)
    ELSE IF ext = ".kmz" THEN read_kmz_file(content)
    ELSE Raise("ValueError")

\* ------------------------------------------------- polygon metrics (73-97)
Abs(n) == IF n < 0 THEN -n ELSE n

RECURSIVE Gcd(_, _)
Gcd(a, b) == IF b = 0 THEN a ELSE Gcd(b, a % b)

\* the exact value n/d (d # 0) in lowest terms with a positive denominator
Rat(n, d) ==
    LET g == Gcd(Abs(n), Abs(d))
        s == IF d < 0 THEN -1 ELSE 1
    IN <<(s * n) \div g, (s * d) \div g>>

\* lines 84-86: if coords[0] != coords[-1]: coords.append(coords[0]);
\* the list is changed in place and coords[0] of an empty list raises
cerrar_always(coords) ==
    IF coords = <<>> THEN Raise("IndexError")
    ELSE Ok(Append(coords, coords[1]))

cerrar(coords) ==
    IF coords = <<>> THEN Raise("IndexError")
    ELSE IF coords[1] # coords[Len(coords)] THEN Ok(Append(coords, coords[1]))
    ELSE Ok(coords)

\* line 89: [(lon, lat) for lat, lon in coords]: each pair is unpacked as
\* (lat, lon) and rebuilt as (lon, lat), so x is the pair's second component
\* and y its first
shell_points(coords) ==
    [k \in 1..Len(coords) |-> <<coords[k][2], coords[k][1]>>]

\* line 89: Polygon(shell) rejects a ring of fewer than 4 coordinates
\* ("A linearring requires at least 4 coordinates")
Polygon(shell) ==
    IF Len(shell) < 4 THEN Raise("ValueError") ELSE Ok(shell)

\* the sum of the numbers of a sequence
Sum(terms) ==
    LET s[k \in 0..Len(terms)] == IF k = 0 THEN 0 ELSE s[k - 1] + terms[k]
    IN s[Len(terms)]

\* the segments of a ring are k = 1 .. Len - 1, from point k to point k + 1
Segments(pts) == 1..(Len(pts) - 1)

Cross(pts, k) == pts[k][1] * pts[k + 1][2] - pts[k + 1][1] * pts[k][2]

\* twice the signed shoelace area of the ring
Area2(pts) == Sum([k \in Segments(pts) |-> Cross(pts, k)])

\* the length of segment k; the coordinates of the model are chosen on a
\* grid with integral distances
SegLen(pts, k) ==
    LET dx == pts[k + 1][1] - pts[k][1]
        dy == pts[k + 1][2] - pts[k][2]
        sq == dx * dx + dy * dy
    IN CHOOSE d \in 0..(Abs(dx) + Abs(dy)) : d * d = sq

\* lines 92-93: poly.centroid: area-weighted; for a ring of zero area the
\* length-weighted centroid of its segments; for a ring of zero length its
\* point.  c is the component (1 = x, 2 = y).
CentroidComp(pts, c) ==
    LET a2 == Area2(pts)
        len == Sum([k \in Segments(pts) |-> SegLen(pts, k)])
    IN IF a2 # 0
       THEN Rat(Sum([k \in Segments(pts) |-> (pts[k][c] + pts[k + 1][c]) * Cross(pts, k)]),
                3 * a2)
       ELSE IF len # 0
       THEN Rat(Sum([k \in Segments(pts) |-> (pts[k][c] + pts[k + 1][c]) * SegLen(pts, k)]),
                2 * len)
       ELSE Rat(pts[1][c], 1)

\* line 91: round(poly.area*1000000, 1); poly.area is |Area2|/2, so the
\* product is a whole number and the rounding leaves it alone
area_ha(pts) == Abs(Area2(pts)) * 500000

\* line 95: centroid = f"{y}, {x}": the text is the pair of its two numbers
fmt_centroid(x, y) == <<y, x>>

\* lines 84-97; the value carries the list as the call leaves it
calcular_sin_mutar(coords) ==
    LET c == cerrar(coords)
    IN IF ~c.ok THEN c
       ELSE LET poly == Polygon(shell_points(c.val))
            IN IF ~poly.ok THEN poly
               ELSE Ok([coords |-> coords,
                        area_ha |-> area_ha(poly.val),
                        centroid |-> fmt_centroid(CentroidComp(poly.val, 1),
                                                  CentroidComp(poly.val, 2))])

calcular_vacio_cero(coords) ==
    IF coords = <<>>
    THEN Ok([coords |-> coords, area_ha |-> 0, centroid |-> <<Rat(0, 1), Rat(0, 1)>>])
    ELSE LET c == cerrar(coords)
             poly == Polygon(shell_points(c.val))
         IN IF ~poly.ok THEN poly
            ELSE Ok([coords |-> c.val,
                     area_ha |-> area_ha(poly.val),
                     centroid |-> fmt_centroid(CentroidComp(poly.val, 1),
                                               CentroidComp(poly.val, 2))])

calcular_superficie_hectareas(coords) ==
    LET c == cerrar(coords)
    IN IF ~c.ok THEN c
       ELSE LET poly == Polygon(shell_points(c.val))
            IN IF ~poly.ok THEN poly
               ELSE Ok([coords |-> c.val,
                        area_ha |-> area_ha(poly.val),
                        centroid |-> fmt_centroid(CentroidComp(poly.val, 1),
                                                  CentroidComp(poly.val, 2))])

\* ---------------------------------------------------------- sample inputs
\* "lon,lat" and "lon,lat,alt"
Tok2(lon, lat) == <<Num(lon), Num(lat)>>
Tok3(lon, lat, alt) == <<Num(lon), Num(lat), Num(alt)>>

\* <coordinates> elements: text with tokens, whitespace-only text, no text,
\* and an element outside the KML namespace
Coordinates(depth, tokens) ==
    [kml_ns |-> TRUE, depth |-> depth, text_none |-> FALSE, tokens |-> tokens]
Blank(depth) == Coordinates(depth, <<>>)
NoText(depth) ==
    [kml_ns |-> TRUE, depth |-> depth, text_none |-> TRUE, tokens |-> <<>>]
Foreign(depth, tokens) ==
    [kml_ns |-> FALSE, depth |-> depth, text_none |-> FALSE, tokens |-> tokens]

Doc(elems) == [utf8 |-> TRUE, wf |-> TRUE, elems |-> elems]
Malformed == [utf8 |-> TRUE, wf |-> FALSE, elems |-> <<>>]
NotUtf8 == [utf8 |-> FALSE, wf |-> FALSE, elems |-> <<>>]

Name(stem, ext) == [stem |-> stem, ext |-> ext]
Xml(doc) == [kind |-> "xml", doc |-> doc, entries |-> <<>>]
Zip(entries) == [kind |-> "zip", doc |-> NotUtf8, entries |-> entries]
Entry(stem, ext, doc) == [name |-> Name(stem, ext), doc |-> doc]
Upload(stem, ext, content) == [name |-> Name(stem, ext), content |-> content]

Triangle == Doc(<<Coordinates(3, <<Tok2(0, 0), Tok2(3, 0), Tok2(3, 4)>>)>>)
ClosedRing ==
    Doc(<<Coordinates(4, <<Tok3(0, 0, 7), Tok3(3, 0, 7)>>),
          Foreign(2, <<Tok2(3, 0)>>),
          Coordinates(2, <<Tok3(0, 4, 7), Tok3(0, 0, 7)>>)>>)
Segment == Doc(<<Coordinates(3, <<Tok2(0, 0), Tok2(3, 4)>>)>>)
OnlyBlank == Doc(<<Blank(3), Foreign(3, <<Tok2(3, 4)>>)>>)

\* the files a user may upload: each has a name of its own
FilePool ==
    { Upload("a", ".kml", Xml(Triangle)),
      Upload("b", ".kml", Xml(ClosedRing)),
      Upload("c", ".kml", Xml(Malformed)),
      Upload("d", ".KML", Xml(Triangle)),
      Upload("e", ".kmz", Zip(<<Entry("icon", ".png", NotUtf8),
                                Entry("doc", ".kml", Triangle)>>)),
      Upload("f", ".kml", Xml(OnlyBlank)),
      Upload("g", ".kmz", Zip(<<Entry("icon", ".png", NotUtf8),
                                Entry("DOC", ".KML", Triangle)>>)),
      Upload("h", ".gpx", Xml(Triangle)),
      Upload("k", ".Kmz", Zip(<<Entry("doc", ".kml", ClosedRing)>>)),
      Upload("l", ".kml", Xml(Segment)) }

RECURSIVE SeqsUpTo(_, _)
SeqsUpTo(S, n) ==
    IF n = 0 THEN {<<>>}
    ELSE LET shorter == SeqsUpTo(S, n - 1)
         IN shorter \cup {Append(q, x) : q \in {r \in shorter : Len(r) = n - 1}, x \in S}

\* ------------------------------------------------------------------ state
VARIABLES
    uploaded_files,  \* the batch, in upload order (line 112)
    idx,             \* position of the for loop of line 133 in the batch
    pc,              \* where the handler of the button is
    tmp_path,        \* read_file's temporary file (line 61), 0 when none
    tmpfiles,        \* the temporary files that exist on disk
    ret,             \* what the try block of read_file produced (62-68)
    coords,          \* the list bound to coords (line 140)
    metrics,         \* (sup, centroid) of line 141
    df,              \* the report table (line 129)
    errores,         \* the error list (line 130)
    kml,             \* parser development: the document under test
    archive,         \* the archive that holds it
    parsed,          \* result of parse_kml(kml)
    kml_read,        \* result of read_kml_file on kml
    kmz_read,        \* result of read_kmz_file on archive
    ring,            \* the list the closure step is applied to
    closes,          \* how often the closure step has run on ring
    grew             \* whether the last closure step appended

batch_vars == <<uploaded_files, idx, pc, tmp_path, tmpfiles, ret, coords,
                metrics, df, errores>>
pure_vars == <<kml, archive, parsed, kml_read, kmz_read, ring, closes, grew>>
vars == <<batch_vars, pure_vars>>

None == Raise("unset")
NoMetrics == [area_ha |-> 0, centroid |-> <<>>]

PureIdle ==
    /\ kml = Malformed
    /\ archive = <<>>
    /\ parsed = None
    /\ kml_read = None
    /\ kmz_read = None
    /\ ring = <<>>
    /\ closes = 0
    /\ grew = FALSE

\* lines 129-130: an empty table and an empty error list; the handler only
\* gets here with at least one uploaded file (line 125)
Init ==
    /\ uploaded_files \in SeqsUpTo(FilePool, MaxFiles) \ {<<>>}
    /\ idx = 1
    /\ pc = "for"
    /\ tmp_path = 0
    /\ tmpfiles = {}
    /\ ret = None
    /\ coords = <<>>
    /\ metrics = NoMetrics
    /\ df = <<>>
    /\ errores = <<>>
    /\ PureIdle

file == uploaded_files[idx]

\* line 136: errores.append(filename)
ignored(filename) == [filename |-> filename, error |-> ""]

\* lines 143-144: errores.append(f"{filename} (error: {e})")
except_drop(lst, filename, e) == lst

except(lst, filename, e) == Append(lst, [filename |-> filename, error |-> e])

\* line 135: filename.endswith(".kmz") or filename.endswith(".kml")
accepted(filename) == endswith(filename, ".kmz") \/ endswith(filename, ".kml")

\* line 142: df.loc[len(df)] = [filename, coords, centroid, sup]
row(filename, cs, centroid, sup) ==
    [Archivo |-> filename, Poligono |-> cs,
     PuntoReferencia |-> centroid, Superficie |-> sup]

\* lines 133-137: a name that does not end in .kmz or .kml is recorded and
\* the loop continues
Ignore ==
    /\ pc = "for" /\ idx <= Len(uploaded_files)
    /\ ~accepted(file.name)
    /\ errores' = Append(errores, ignored(file.name))
    /\ idx' = idx + 1
    /\ UNCHANGED <<uploaded_files, pc, tmp_path, tmpfiles, ret, coords, metrics, df>>
    /\ UNCHANGED pure_vars

\* lines 133-140 and 54-57: the name passes and read_file is entered
Enter ==
    /\ pc = "for" /\ idx <= Len(uploaded_files)
    /\ accepted(file.name)
    /\ pc' = "tmp"
    /\ UNCHANGED <<uploaded_files, idx, tmp_path, tmpfiles, ret, coords, metrics, df, errores>>
    /\ UNCHANGED pure_vars

\* lines 59-61: the temporary file is created (delete=False) and written
WriteTmp ==
    /\ pc = "tmp"
    /\ tmp_path' = idx
    /\ tmpfiles' = tmpfiles \cup {idx}
    /\ pc' = "try"
    /\ UNCHANGED <<uploaded_files, idx, ret, coords, metrics, df, errores>>
    /\ UNCHANGED pure_vars

\* line 60: tmp.write(data) raises (say, no space left): the with block
\* closes the file, which stays on disk, and the error reaches line 143
WriteTmpFails ==
    /\ pc = "tmp"
    /\ tmpfiles' = tmpfiles \cup {idx}
    /\ errores' = except(errores, file.name, "OSError")
    /\ idx' = idx + 1
    /\ pc' = "for"
    /\ UNCHANGED <<uploaded_files, tmp_path, ret, coords, metrics, df>>
    /\ UNCHANGED pure_vars

\* lines 56, 62-68: the body of the try
Try ==
    /\ pc = "try"
    /\ ret' = read_by_ext(lower(file.name.ext), file.content)
    /\ pc' = "finally"
    /\ UNCHANGED <<uploaded_files, idx, tmp_path, tmpfiles, coords, metrics, df, errores>>
    /\ UNCHANGED pure_vars

\* lines 69-70 and 140: os.remove(tmp_path), then the return
Return ==
    /\ pc = "finally" /\ ret.ok
    /\ tmpfiles' = tmpfiles \ {tmp_path}
    /\ tmp_path' = 0
    /\ coords' = ret.val
    /\ ret' = None
    /\ pc' = "metrics"
    /\ UNCHANGED <<uploaded_files, idx, metrics, df, errores>>
    /\ UNCHANGED pure_vars

\* lines 69-70 and 143-144: os.remove(tmp_path), then the error propagates
Reraise ==
    /\ pc = "finally" /\ ~ret.ok
    /\ tmpfiles' = tmpfiles \ {tmp_path}
    /\ tmp_path' = 0
    /\ errores' = except(errores, file.name, ret.err)
    /\ ret' = None
    /\ idx' = idx + 1
    /\ pc' = "for"
    /\ UNCHANGED <<uploaded_files, coords, metrics, df>>
    /\ UNCHANGED pure_vars

\* line 141, no error: coords is the list the call closed in place
Metrics ==
    /\ pc = "metrics"
    /\ LET m == calcular_superficie_hectareas(coords)
       IN /\ m.ok
          /\ coords' = m.val.coords
          /\ metrics' = [area_ha |-> m.val.area_ha, centroid |-> m.val.centroid]
    /\ pc' = "row"
    /\ UNCHANGED <<uploaded_files, idx, tmp_path, tmpfiles, ret, df, errores>>
    /\ UNCHANGED pure_vars

\* lines 141, 143-144: the metrics step raises
MetricsFails ==
    /\ pc = "metrics"
    /\ LET m == calcular_superficie_hectareas(coords)
       IN /\ ~m.ok
          /\ errores' = except(errores, file.name, m.err)
    /\ coords' = <<>>
    /\ idx' = idx + 1
    /\ pc' = "for"
    /\ UNCHANGED <<uploaded_files, tmp_path, tmpfiles, ret, metrics, df>>
    /\ UNCHANGED pure_vars

\* line 142
AddRow ==
    /\ pc = "row"
    /\ df' = Append(df, row(file.name, coords, metrics.centroid, metrics.area_ha))
    /\ coords' = <<>>
    /\ metrics' = NoMetrics
    /\ idx' = idx + 1
    /\ pc' = "for"
    /\ UNCHANGED <<uploaded_files, tmp_path, tmpfiles, ret, errores>>
    /\ UNCHANGED pure_vars

\* line 133: the batch is exhausted
EndFor ==
    /\ pc = "for" /\ idx > Len(uploaded_files)
    /\ pc' = "done"
    /\ UNCHANGED <<uploaded_files, idx, tmp_path, tmpfiles, ret, coords, metrics, df, errores>>
    /\ UNCHANGED pure_vars

Next ==
    \/ Ignore
    \/ Enter
    \/ WriteTmp
    \/ WriteTmpFails
    \/ Try
    \/ Return
    \/ Reraise
    \/ Metrics
    \/ MetricsFails
    \/ AddRow
    \/ EndFor

Spec == Init /\ [][Next]_vars

\* ------------------------------------------------ properties of the batch
\* the number of positions of a sequence whose element passes the test
Count(seq, Test(_)) == Cardinality({k \in DOMAIN seq : Test(seq[k])})

\* the files the loop has finished with
Processed == SubSeq(uploaded_files, 1, idx - 1)

Names == {f.name : f \in FilePool}

\* C1: every file the loop has finished with is exactly one Report Row or
\* one Error Record: for every name, its rows plus its error records are its
\* occurrences among the finished files, rows plus error records are the
\* finished files, and when the loop ends every file is finished, whatever
\* failed before it.
C1_OneRowOrOneError ==
    /\ Len(df) + Len(errores) = idx - 1
    /\ \A n \in Names :
          Count(df, LAMBDA r : r.Archivo = n) + Count(errores, LAMBDA e : e.filename = n)
              = Count(Processed, LAMBDA f : f.name = n)
    /\ pc = "done" => idx - 1 = Len(uploaded_files)

\* three files, the second malformed XML: two rows and one error record,
\* which names the second file
C1_Witness ==
    /\ pc = "done"
    /\ Len(uploaded_files) = 3
    /\ uploaded_files[2].content = Xml(Malformed)
    /\ Len(df) = 2
    /\ Len(errores) = 1
    /\ errores[1].filename = uploaded_files[2].name
    /\ errores[1].error = "ParseError"
    /\ df[2].Archivo = uploaded_files[3].name

\* the polygon with x = longitude and y = latitude of a list of
\* (longitude, latitude) pairs
GeoPoints(cs) == [k \in 1..Len(cs) |-> <<cs[k][1], cs[k][2]>>]

\* C2: the centroid text of every row has the latitude of the centroid of
\* the polygon built with x = longitude, y = latitude first and its
\* longitude second.
C2_CentroidLatLon ==
    \A k \in 1..Len(df) :
        df[k].PuntoReferencia = <<CentroidComp(GeoPoints(df[k].Poligono), 2),
                                  CentroidComp(GeoPoints(df[k].Poligono), 1)>>

\* what a file gives when nothing of the environment fails
Extracted(f) == read_by_ext(lower(f.name.ext), f.content)
YieldsRow(f) ==
    /\ accepted(f.name)
    /\ Extracted(f).ok
    /\ calcular_superficie_hectareas(Extracted(f).val).ok

LowerCase(f) == [f EXCEPT !.name.ext = lower(f.name.ext)]

\* C3: a file whose name ends in a letter-case variant of .kml or .kmz ends
\* as its lower-case counterpart does: if that one yields a row, so does
\* every finished occurrence of the file whose temporary file could be
\* written.
C3_ExtensionAnyCase ==
    \A f \in FilePool :
        YieldsRow(LowerCase(f)) =>
            Count(df, LAMBDA r : r.Archivo = f.name)
                + Count(errores, LAMBDA e : e.filename = f.name /\ e.error = "OSError")
                    = Count(Processed, LAMBDA g : g.name = f.name)

\* the number of coordinate tokens a document holds in namespaced
\* coordinates elements
DocTokens(doc) ==
    LET s[k \in 0..Len(doc.elems)] ==
            IF k = 0 THEN 0
            ELSE s[k - 1] + (IF doc.elems[k].kml_ns THEN Len(doc.elems[k].tokens) ELSE 0)
    IN s[Len(doc.elems)]

\* the number of coordinates there are to extract from a file
Extractable(f) ==
    IF f.content.kind = "xml" THEN DocTokens(f.content.doc)
    ELSE LET es == f.content.entries
             s[k \in 0..Len(es)] ==
                 IF k = 0 THEN 0
                 ELSE s[k - 1] + (IF es[k].name.ext = ".kml" THEN DocTokens(es[k].doc) ELSE 0)
         IN s[Len(es)]

\* C5: a file with no coordinates to extract never has a Report Row, every
\* finished occurrence of it has an Error Record, and no row holds an empty
\* coordinate list.
C5_EmptyGeometryRejected ==
    /\ \A f \in FilePool :
          Extractable(f) = 0 =>
              /\ \A k \in 1..Len(df) : df[k].Archivo # f.name
              /\ Count(errores, LAMBDA e : e.filename = f.name)
                     = Count(Processed, LAMBDA g : g.name = f.name)
    /\ \A k \in 1..Len(df) : df[k].Poligono # <<>>

\* a document with only a blank coordinates element and an archive without
\* a .kml entry have both been read without error and both ended as errors
C5_Witness ==
    /\ pc = "done"
    /\ df = <<>>
    /\ \E j, k \in 1..Len(errores) :
          /\ errores[j].filename = Name("f", ".kml")
          /\ errores[j].error = "IndexError"
          /\ errores[k].filename = Name("g", ".kmz")
          /\ errores[k].error = "IndexError"

\* C6: outside read_file no temporary file exists: the one a call creates
\* is gone when the call returns or raises.
C6_NoTempFileLeft == pc \notin {"try", "finally"} => tmpfiles = {}

\* the ring of a list: the list itself when its ends are equal, otherwise
\* the list with its first coordinate appended
Ring(cs) == IF cs[1] = cs[Len(cs)] THEN cs ELSE cs \o <<cs[1]>>

\* C10: the coordinate list of every Report Row is the ring of the list
\* extracted from its file: its ends are equal, and it is the extracted
\* list only when that one was closed already.
C10_RowHoldsClosedRing ==
    \A k \in 1..Len(df) :
        /\ df[k].Poligono[1] = df[k].Poligono[Len(df[k].Poligono)]
        /\ \A f \in FilePool :
              f.name = df[k].Archivo =>
                  /\ df[k].Poligono = Ring(Extracted(f).val)
                  /\ (df[k].Poligono = Extracted(f).val)
                         <=> (Extracted(f).val[1] = Extracted(f).val[Len(Extracted(f).val)])

\* one row from an open list, which grew by its first coordinate, and one
\* from a closed list, which did not change
C10_Witness ==
    /\ Len(df) = 2
    /\ df[1].Archivo = Name("a", ".kml")
    /\ Len(df[1].Poligono) = 4
    /\ df[2].Archivo = Name("b", ".kml")
    /\ df[2].Poligono = Extracted(Upload("b", ".kml", Xml(ClosedRing))).val

\* ------------------------------------- the parser and the readers alone
\* coordinates elements a document under test is made of
ElemPool ==
    { Coordinates(2, <<Tok2(1, 2), Tok3(3, 4, 9)>>),
      Coordinates(5, <<Tok2(1, 2)>>),
      Blank(3),
      NoText(3),
      Foreign(3, <<Tok2(7, 8)>>),
      Coordinates(3, <<Tok2(5, 6), <<Num(5)>>, <<Txt, Num(2)>>>>) }

Docs == {Doc(es) : es \in SeqsUpTo(ElemPool, MaxElems)} \cup {Malformed, NotUtf8}

\* the other entries of the archive that holds the document
ExtraPool ==
    { Entry("other", ".kml", Doc(<<Coordinates(2, <<Tok2(9, 9)>>)>>)),
      Entry("icon", ".png", NotUtf8),
      Entry("UPPER", ".KML", Doc(<<Coordinates(2, <<Tok2(8, 8)>>)>>)),
      Entry("bad", ".kml", Malformed) }

InsertAt(seq, pos, x) == SubSeq(seq, 1, pos) \o <<x>> \o SubSeq(seq, pos + 1, Len(seq))

BatchIdle ==
    /\ uploaded_files = <<>>
    /\ idx = 1
    /\ tmp_path = 0
    /\ tmpfiles = {}
    /\ ret = None
    /\ coords = <<>>
    /\ metrics = NoMetrics
    /\ df = <<>>
    /\ errores = <<>>

\* a document, and an archive with the document as its entry doc.kml
InitPure ==
    /\ kml \in Docs
    /\ \E extras \in SeqsUpTo(ExtraPool, MaxExtras) :
          \E pos \in 0..Len(extras) :
              archive = InsertAt(extras, pos, Entry("doc", ".kml", kml))
    /\ parsed = None
    /\ kml_read = None
    /\ kmz_read = None
    /\ ring = <<>>
    /\ closes = 0
    /\ grew = FALSE
    /\ pc = "parse_kml"
    /\ BatchIdle

\* parse_kml on the text of the document
ParseKml ==
    /\ pc = "parse_kml"
    /\ parsed' = parse_kml(kml)
    /\ pc' = "read_kml_file"
    /\ UNCHANGED <<kml, archive, kml_read, kmz_read, ring, closes, grew>>
    /\ UNCHANGED <<uploaded_files, idx, tmp_path, tmpfiles, ret, coords, metrics, df, errores>>

\* read_kml_file on a file with the bytes of the document
ReadKml ==
    /\ pc = "read_kml_file"
    /\ kml_read' = read_kml_file(Xml(kml))
    /\ pc' = "read_kmz_file"
    /\ UNCHANGED <<kml, archive, parsed, kmz_read, ring, closes, grew>>
    /\ UNCHANGED <<uploaded_files, idx, tmp_path, tmpfiles, ret, coords, metrics, df, errores>>

\* read_kmz_file on the archive; the parsed list is handed to the closure
ReadKmz ==
    /\ pc = "read_kmz_file"
    /\ kmz_read' = read_kmz_file(Zip(archive))
    /\ ring' = parsed.val
    /\ pc' = "cerrar"
    /\ UNCHANGED <<kml, archive, parsed, kml_read, closes, grew>>
    /\ UNCHANGED <<uploaded_files, idx, tmp_path, tmpfiles, ret, coords, metrics, df, errores>>

\* lines 84-86 on a non-empty list, again on their own result
Cerrar ==
    /\ pc = "cerrar" /\ closes < MaxClose
    /\ cerrar(ring).ok
    /\ ring' = cerrar(ring).val
    /\ grew' = (Len(cerrar(ring).val) > Len(ring))
    /\ closes' = closes + 1
    /\ UNCHANGED <<kml, archive, parsed, kml_read, kmz_read, pc>>
    /\ UNCHANGED <<uploaded_files, idx, tmp_path, tmpfiles, ret, coords, metrics, df, errores>>

\* line 84 on an empty list: coords[0] raises
CerrarFails ==
    /\ pc = "cerrar"
    /\ ~cerrar(ring).ok
    /\ pc' = "raised"
    /\ UNCHANGED <<kml, archive, parsed, kml_read, kmz_read, ring, closes, grew>>
    /\ UNCHANGED <<uploaded_files, idx, tmp_path, tmpfiles, ret, coords, metrics, df, errores>>

NextPure ==
    \/ ParseKml
    \/ ReadKml
    \/ ReadKmz
    \/ Cerrar
    \/ CerrarFails

SpecPure == InitPure /\ [][NextPure]_vars

\* ----------------------------------------------- properties of the parser
Matched(doc) == SelectSeq(doc.elems, LAMBDA e : e.kml_ns)

\* a document without the namespaced coordinates elements that have no
\* text or only whitespace
WithoutEmpty(doc) ==
    [doc EXCEPT !.elems = SelectSeq(doc.elems,
                              LAMBDA e : ~(e.kml_ns /\ (e.text_none \/ e.tokens = <<>>)))]

\* C4: a coordinates element with empty or whitespace-only text contributes
\* nothing and does not make the parse fail: the document parses to what it
\* parses to without such elements.
C4_EmptyElementNoPairs ==
    parsed # None => parsed = parse_kml(WithoutEmpty(kml))

\* "lon,lat" or "lon,lat,alt", all numeric
ValidToken(t) == Len(t) >= 2 /\ t[1].num /\ t[2].num

\* a well-formed document whose coordinates elements all have text made of
\* valid tokens
Clean(doc) ==
    /\ doc.wf
    /\ \A k \in 1..Len(Matched(doc)) :
          /\ ~Matched(doc)[k].text_none
          /\ \A n \in 1..Len(Matched(doc)[k].tokens) : ValidToken(Matched(doc)[k].tokens[n])

\* the number of tokens before the k-th matched element
Before(doc, k) ==
    LET s[j \in 0..Len(Matched(doc))] ==
            IF j = 0 THEN 0 ELSE s[j - 1] + Len(Matched(doc)[j].tokens)
    IN s[k - 1]

\* the n-th token of the document, counted over its matched elements
NthToken(doc, n) ==
    LET k == CHOOSE j \in 1..Len(Matched(doc)) :
                 Before(doc, j) < n /\ n <= Before(doc, j) + Len(Matched(doc)[j].tokens)
    IN Matched(doc)[k].tokens[n - Before(doc, k)]

C7_KmzRoundTrip ==
    (pc \in {"cerrar", "raised"}
        /\ Count(archive, LAMBDA e : endswith(e.name, ".kml")) = 1)
            => kmz_read = kml_read

\* the document between a .png and a .KML entry, read to three pairs
C7_Witness ==
    /\ pc = "cerrar"
    /\ Len(archive) = 3
    /\ archive[1].name.ext = ".png"
    /\ archive[2].name = Name("doc", ".kml")
    /\ archive[3].name.ext = ".KML"
    /\ kmz_read.ok
    /\ Len(kmz_read.val) = 3
    /\ kml_read.ok

\* C9: the closure step appends the first coordinate exactly when the ends
\* differ, its result has equal ends, and a further application to its own
\* result changes nothing.
C9_ClosureIdempotent ==
    closes >= 1 =>
        /\ ring[1] = ring[Len(ring)]
        /\ ring = Ring(parsed.val)
        /\ closes = 1 => (grew <=> parsed.val[1] # parsed.val[Len(parsed.val)])
        /\ closes >= 2 => ~grew

\* an open list after two applications: one coordinate longer, not two
C9_Witness ==
    /\ closes = 2
    /\ parsed.val[1] # parsed.val[Len(parsed.val)]
    /\ Len(ring) = Len(parsed.val) + 1

====
